---- MODULE Spec2Model ----
(***************************************************************************)
(* Model of package chaincfg (src/chaincfg/params.go): the process-wide    *)
(* network-parameter registry, its Register operation and the four lookup  *)
(* functions over its derived indices.                                     *)
(*                                                                         *)
(* Bytes are integers 0..255.  Go strings are sequences of bytes (ASCII    *)
(* codes).  A [4]byte array is a 4-tuple of bytes.  A Go map is a function *)
(* whose DOMAIN is the set of keys present (a map used as a set is a set). *)
(* A *Params is an index into the heap `params`; the []byte stored in      *)
(* hdPrivToPubKeyIDs is params.HDPublicKeyID[:], a slice that aliases the  *)
(* array inside the Params object, so the map stores the index of that     *)
(* object.                                                                 *)
(***************************************************************************)
EXTENDS Integers, Sequences, FiniteSets, TLC

VARIABLES
    registeredNets,        \* map[wire.DASHNet]struct{}
    pubKeyHashAddrIDs,     \* map[byte]struct{}
    scriptHashAddrIDs,     \* map[byte]struct{}
    bech32SegwitPrefixes,  \* map[string]struct{}
    hdPrivToPubKeyIDs,     \* map[[4]byte][]byte, the slice given as the heap index it aliases
    params,                \* heap: the Params objects the registry refers to, in allocation order
    initpc,                \* number of mustRegister calls func init() has completed
    crashed,               \* "no", or how the process ended: "panic", "fatal"
    pc,                    \* per goroutine: the source line it is about to execute, 0 when idle
    frame,                 \* per goroutine: the arguments and locals of its call in progress
    ret,                   \* per goroutine: the last call it completed and what that returned
    registered             \* history: heap indices of the Params whose Register returned nil

maps == <<registeredNets, pubKeyHashAddrIDs, scriptHashAddrIDs,
          bech32SegwitPrefixes, hdPrivToPubKeyIDs>>

registry == <<registeredNets, pubKeyHashAddrIDs, scriptHashAddrIDs,
              bech32SegwitPrefixes, hdPrivToPubKeyIDs, params>>

vars == <<registeredNets, pubKeyHashAddrIDs, scriptHashAddrIDs,
          bech32SegwitPrefixes, hdPrivToPubKeyIDs, params,
          initpc, crashed, pc, frame, ret, registered>>

----------------------------------------------------------------------------
(* Bounds of the model. *)

\* Longest []byte handed to HDPrivateKeyToPublicKeyID.
MaxIDLen == 5

\* Number of goroutines of the concurrent specification.
NProc == 2

----------------------------------------------------------------------------
(* Values of the program. *)

\* Network magics (wire.DASHNet).  The three built-in ones are named in
\* params.go; their numeric values live in package wire.
MainNet == "MainNet"
TestNet == "TestNet"
TestNet3 == "TestNet3"
\* Two magics of networks an integrator registers at run time.
SimNet == "SimNet"
CustomNet == "CustomNet"

ErrDuplicateNet == "duplicate DASH network"
ErrUnknownHDKeyID == "unknown hd private extended key bytes"
nil == "nil"

\* Strings as ASCII codes: "bc" and "tb" of the built-in networks, "sb" and
\* "SB" of run-time networks, and the separator "1".
HRPbc == <<98, 99>>
HRPtb == <<116, 98>>
HRPsb == <<115, 98>>
HRPSB == <<83, 66>>
Sep == <<49>>

MainHDPriv == <<4, 136, 173, 228>>   \* 04 88 ad e4
MainHDPub == <<4, 136, 178, 30>>     \* 04 88 b2 1e
TestHDPriv == <<4, 53, 131, 148>>    \* 04 35 83 94
TestHDPub == <<4, 53, 135, 207>>     \* 04 35 87 cf
\* Run-time HD magics: a private magic that is MainHDPriv's first three
\* bytes followed by a zero byte, and a public magic of its own.
PadHDPriv == <<4, 136, 173, 0>>
SimHDPub == <<4, 32, 178, 69>>

\* The fields of Params the registry reads.
MainNetParams ==
    [Net |-> MainNet, Bech32HRPSegwit |-> HRPbc,
     PubKeyHashAddrID |-> 76, ScriptHashAddrID |-> 16,
     HDPrivateKeyID |-> MainHDPriv, HDPublicKeyID |-> MainHDPub]

RegressionNetParams ==
    [Net |-> TestNet, Bech32HRPSegwit |-> HRPtb,
     PubKeyHashAddrID |-> 140, ScriptHashAddrID |-> 19,
     HDPrivateKeyID |-> TestHDPriv, HDPublicKeyID |-> TestHDPub]

TestNet3Params ==
    [Net |-> TestNet3, Bech32HRPSegwit |-> HRPtb,
     PubKeyHashAddrID |-> 140, ScriptHashAddrID |-> 19,
     HDPrivateKeyID |-> TestHDPriv, HDPublicKeyID |-> TestHDPub]

\* func init() without its last mustRegister call.
InitOrderWithoutRegressionNet == <<MainNetParams, TestNet3Params>>

\* The order in which func init() registers the built-in networks.
InitOrder == <<MainNetParams, TestNet3Params, RegressionNetParams>>

----------------------------------------------------------------------------
(* Consensus data of the built-in Params. *)

\* Heights of MainNetParams.Checkpoints with two neighbours exchanged.
MainNetCheckpointsExchanged ==
    <<4991, 9918, 16912, 23912, 35457, 45479, 55895, 68899, 74619, 75095,
      88805, 107996, 137993, 167996, 207992, 312645, 407452, 523930, 523412,
      750000>>

\* Heights (int32) of the Checkpoints of the built-in Params, in the order
\* of the slice literals.
MainNetCheckpoints ==
    <<4991, 9918, 16912, 23912, 35457, 45479, 55895, 68899, 74619, 75095,
      88805, 107996, 137993, 167996, 207992, 312645, 407452, 523412, 523930,
      750000>>

RegressionNetCheckpoints == <<>>

TestNet3Checkpoints == <<261, 1999, 2999>>

\* v.Checkpoints of a built-in Params v, as heights.
Checkpoints(v) ==
    IF v = MainNetParams THEN MainNetCheckpoints
    ELSE IF v = TestNet3Params THEN TestNet3Checkpoints
    ELSE RegressionNetCheckpoints

\* The deployment identifiers, and their number.
DeploymentTestDummy == 0
DeploymentCSV == 1
DeploymentSegwit == 2
DefinedDeployments == 3

\* A uint64 as four 16-bit limbs, most significant first: the values of
\* the tables go up to 2^63 - 1.  Uint64(n) converts a constant below 2^31.
Uint64(n) == <<0, 0, n \div 65536, n % 65536>>

\* math.MaxInt64 converted to uint64: 0x7fff ffff ffff ffff.
MaxInt64 == <<32767, 65535, 65535, 65535>>

\* a <= b on uint64.
Uint64LessEq(a, b) ==
    \/ a = b
    \/ \E i \in 1..4 : a[i] < b[i] /\ \A j \in 1..(i - 1) : a[j] = b[j]

\* ConsensusDeployment{}: the zero value.
ZeroDeployment == [BitNumber |-> 0, StartTime |-> Uint64(0), ExpireTime |-> Uint64(0)]

\* [DefinedDeployments]ConsensusDeployment{...}: the keyed elements, and the
\* zero value at every other index.
DeploymentArray(keyed) ==
    [d \in 0..(DefinedDeployments - 1) |->
        IF d \in DOMAIN keyed THEN keyed[d] ELSE ZeroDeployment]

MainNetDeployments ==
    DeploymentArray(
        DeploymentTestDummy :> [BitNumber |-> 28, StartTime |-> Uint64(1199145601),
                                ExpireTime |-> Uint64(1230767999)]
        @@ DeploymentCSV :> [BitNumber |-> 0, StartTime |-> Uint64(1486252800),
                             ExpireTime |-> Uint64(1517788800)]
        @@ DeploymentSegwit :> [BitNumber |-> 1, StartTime |-> Uint64(1508025600),
                                ExpireTime |-> Uint64(1539561600)])

\* RegressionNetParams.Deployments with StartTime and ExpireTime exchanged.
RegressionNetDeploymentsExchanged ==
    DeploymentArray(
        DeploymentTestDummy :> [BitNumber |-> 28, StartTime |-> MaxInt64,
                                ExpireTime |-> Uint64(0)]
        @@ DeploymentCSV :> [BitNumber |-> 0, StartTime |-> MaxInt64,
                             ExpireTime |-> Uint64(0)]
        @@ DeploymentSegwit :> [BitNumber |-> 1, StartTime |-> MaxInt64,
                                ExpireTime |-> Uint64(0)])

RegressionNetDeployments ==
    DeploymentArray(
        DeploymentTestDummy :> [BitNumber |-> 28, StartTime |-> Uint64(0),
                                ExpireTime |-> MaxInt64]
        @@ DeploymentCSV :> [BitNumber |-> 0, StartTime |-> Uint64(0),
                             ExpireTime |-> MaxInt64]
        @@ DeploymentSegwit :> [BitNumber |-> 1, StartTime |-> Uint64(0),
                                ExpireTime |-> MaxInt64])

TestNet3Deployments ==
    DeploymentArray(
        DeploymentTestDummy :> [BitNumber |-> 28, StartTime |-> Uint64(1199145601),
                                ExpireTime |-> Uint64(1230767999)]
        @@ DeploymentCSV :> [BitNumber |-> 0, StartTime |-> Uint64(1456790400),
                             ExpireTime |-> Uint64(1493596800)]
        @@ DeploymentSegwit :> [BitNumber |-> 1, StartTime |-> Uint64(1462060800),
                                ExpireTime |-> Uint64(1493596800)])

\* v.Deployments of a built-in Params v.
Deployments(v) ==
    IF v = MainNetParams THEN MainNetDeployments
    ELSE IF v = TestNet3Params THEN TestNet3Deployments
    ELSE RegressionNetDeployments

----------------------------------------------------------------------------
(* Inputs. *)

Nets == {MainNet, TestNet, TestNet3, SimNet, CustomNet}

\* Params a caller may hand to Register: any magic; address ids that are
\* mainnet's with the roles swapped (pubkey-hash id 16, script-hash id 76)
\* or new (111 and 196); an HD private magic that is mainnet's or new; an HD
\* public magic that is mainnet's or new; a lower-case or an upper-case
\* prefix.
CallParams ==
    {v \in [Net : Nets, Bech32HRPSegwit : {HRPsb, HRPSB},
            PubKeyHashAddrID : {16, 111}, ScriptHashAddrID : {76, 196},
            HDPrivateKeyID : {MainHDPriv, PadHDPriv},
            HDPublicKeyID : {MainHDPub, SimHDPub}] :
        (v.PubKeyHashAddrID = 16) <=> (v.ScriptHashAddrID = 76)}

\* The exported built-in Params, which a caller may hand to Register again.
BuiltIn == {MainNetParams, RegressionNetParams, TestNet3Params}

ByteInputs == {0, 16, 19, 76, 111, 140, 196}

Goroutines == 1..NProc

\* The goroutine of the single caller.
Main == CHOOSE g \in Goroutines : \A h \in Goroutines : g <= h

\* Arguments of the lookups.
PrefixInputs ==
    LET hrps == {HRPbc, <<66, 67>>, <<66, 99>>, HRPtb, HRPsb, HRPSB, <<83, 98>>}
    IN  hrps \cup {h \o Sep : h \in hrps} \cup {<<>>, Sep}

\* The first n bytes of k followed by zero bytes.
Take(k, n) == [i \in 1..n |-> IF i <= Len(k) THEN k[i] ELSE 0]

IDInputs ==
    {Take(k, n) : k \in {MainHDPriv, TestHDPriv, PadHDPriv, MainHDPub}, n \in 0..MaxIDLen}

----------------------------------------------------------------------------
(* Library functions the package calls. *)

\* strings.ToLower on ASCII: 'A'..'Z' become 'a'..'z'.
ToLower(s) == [i \in DOMAIN s |-> IF s[i] >= 65 /\ s[i] <= 90 THEN s[i] + 32 ELSE s[i]]

\* m[k] = v on a Go map.
MapAssign(m, k, v) == [x \in DOMAIN m \cup {k} |-> IF x = k THEN v ELSE m[x]]

\* The empty map.
EmptyMap == [x \in {} |-> 0]

----------------------------------------------------------------------------
(* Register, statement by statement. *)

\* registeredNets[params.Net] = struct{}{}
Line519(v) == registeredNets' = registeredNets \cup {v.Net}

\* Line 520 as a copy-and-paste slip would leave it: the script-hash id goes
\* into the pubkey-hash index.
Line520WrongField(v) == pubKeyHashAddrIDs' = pubKeyHashAddrIDs \cup {v.ScriptHashAddrID}

\* pubKeyHashAddrIDs[params.PubKeyHashAddrID] = struct{}{}
Line520(v) == pubKeyHashAddrIDs' = pubKeyHashAddrIDs \cup {v.PubKeyHashAddrID}

\* scriptHashAddrIDs[params.ScriptHashAddrID] = struct{}{}
Line521(v) == scriptHashAddrIDs' = scriptHashAddrIDs \cup {v.ScriptHashAddrID}

\* Line 522 keyed by the public magic instead of the private one.
Line522WrongKey(v, p) == hdPrivToPubKeyIDs' = MapAssign(hdPrivToPubKeyIDs, v.HDPublicKeyID, p)

\* Line 522 that keeps the mapping of a private magic already present.
Line522KeepFirst(v, p) ==
    hdPrivToPubKeyIDs' =
        IF v.HDPrivateKeyID \in DOMAIN hdPrivToPubKeyIDs
        THEN hdPrivToPubKeyIDs
        ELSE MapAssign(hdPrivToPubKeyIDs, v.HDPrivateKeyID, p)

\* hdPrivToPubKeyIDs[params.HDPrivateKeyID] = params.HDPublicKeyID[:]
\* The slice points into the Params object at heap index p.
Line522(v, p) == hdPrivToPubKeyIDs' = MapAssign(hdPrivToPubKeyIDs, v.HDPrivateKeyID, p)

\* Line 526 on a map that is made anew by every registration.
Line526Replace(v) == bech32SegwitPrefixes' = {v.Bech32HRPSegwit \o Sep}

\* bech32SegwitPrefixes[params.Bech32HRPSegwit+"1"] = struct{}{}
Line526(v) == bech32SegwitPrefixes' = bech32SegwitPrefixes \cup {v.Bech32HRPSegwit \o Sep}

\* The caller's Params object enters the heap when its Register call passes
\* the duplicate check: from there on the registry will refer to it.
New == Len(params) + 1
Alloc(v) == params' = Append(params, v)

\* Register that records the magic before it looks for a duplicate: the
\* indices are written even when the call fails.
RegisterChecksLate(v, e) ==
    /\ e = IF v.Net \in registeredNets THEN ErrDuplicateNet ELSE nil
    /\ Alloc(v)
    /\ Line519(v) /\ Line520(v) /\ Line521(v) /\ Line522(v, New) /\ Line526(v)
    /\ registered' = IF e = nil THEN registered \cup {New} ELSE registered

\* Register that also turns down a Params whose pubkey-hash id is some
\* network's script-hash id.
RegisterRejectsSharedIDs(v, e) ==
    IF \/ v.Net \in registeredNets
       \/ v.PubKeyHashAddrID \in scriptHashAddrIDs
    THEN /\ e = ErrDuplicateNet
         /\ UNCHANGED <<registry, registered>>
    ELSE /\ e = nil
         /\ Alloc(v)
         /\ Line519(v) /\ Line520(v) /\ Line521(v) /\ Line522(v, New) /\ Line526(v)
         /\ registered' = registered \cup {New}

\* Register(params) run to completion by one caller; e is the error returned.
Register(v, e) ==
    IF v.Net \in registeredNets
    THEN /\ e = ErrDuplicateNet
         /\ UNCHANGED <<registry, registered>>
    ELSE /\ e = nil
         /\ Alloc(v)
         /\ Line519(v) /\ Line520(v) /\ Line521(v) /\ Line522(v, New) /\ Line526(v)
         /\ registered' = registered \cup {New}

\* mustRegister that drops the error of Register.
mustRegisterIgnoresError(v) ==
    \E e \in {nil, ErrDuplicateNet} :
        /\ Register(v, e)
        /\ crashed' = crashed

\* mustRegister(params): Register, and panic on an error.
mustRegister(v) ==
    \E e \in {nil, ErrDuplicateNet} :
        /\ Register(v, e)
        /\ crashed' = IF e # nil THEN "panic" ELSE crashed

----------------------------------------------------------------------------
(* The lookups. *)

IsPubKeyHashAddrID(id) == id \in pubKeyHashAddrIDs

\* IsScriptHashAddrID reading the pubkey-hash index.
IsScriptHashAddrIDWrongMap(id) == id \in pubKeyHashAddrIDs

IsScriptHashAddrID(id) == id \in scriptHashAddrIDs

\* IsBech32SegwitPrefix without the strings.ToLower call.
IsBech32SegwitPrefixNoLower(prefix) == prefix \in bech32SegwitPrefixes

IsBech32SegwitPrefix(prefix) == ToLower(prefix) \in bech32SegwitPrefixes

\* var key [4]byte; copy(key[:], id)
CopyKey(id) == Take(id, 4)

\* HDPrivateKeyToPublicKeyID without the length guard of line 573.
HDPrivateKeyToPublicKeyIDNoGuard(id) ==
    LET key == Take(id, 4) IN
    IF key \notin DOMAIN hdPrivToPubKeyIDs
    THEN [val |-> <<>>, ref |-> 0, err |-> ErrUnknownHDKeyID]
    ELSE [val |-> params[hdPrivToPubKeyIDs[key]].HDPublicKeyID,
          ref |-> hdPrivToPubKeyIDs[key], err |-> nil]

\* The result of HDPrivateKeyToPublicKeyID(id): the bytes of the returned
\* slice (empty for the nil slice), the heap object the slice aliases (0 for
\* the nil slice) and the error.
HDPrivateKeyToPublicKeyID(id) ==
    IF Len(id) # 4
    THEN [val |-> <<>>, ref |-> 0, err |-> ErrUnknownHDKeyID]
    ELSE LET key == CopyKey(id) IN
         IF key \notin DOMAIN hdPrivToPubKeyIDs
         THEN [val |-> <<>>, ref |-> 0, err |-> ErrUnknownHDKeyID]
         ELSE [val |-> params[hdPrivToPubKeyIDs[key]].HDPublicKeyID,
               ref |-> hdPrivToPubKeyIDs[key], err |-> nil]

----------------------------------------------------------------------------
(* The program with one caller: every call runs to completion. *)

\* Params{}: the zero value.
ZeroParams ==
    [Net |-> "", Bech32HRPSegwit |-> <<>>,
     PubKeyHashAddrID |-> 0, ScriptHashAddrID |-> 0,
     HDPrivateKeyID |-> <<0, 0, 0, 0>>, HDPublicKeyID |-> <<0, 0, 0, 0>>]

\* A call in progress: its argument (a *Params, a byte, or a string or
\* []byte) and, for Register, the heap index of its Params.
NoFrame == [params |-> ZeroParams, id |-> 0, bytes |-> <<>>, ptr |-> 0]

\* A completed call: its name, its argument, and what it returned (a bool,
\* or a []byte with the heap object it aliases, and an error).
Ret(op) ==
    [op |-> op, params |-> ZeroParams, id |-> 0, bytes |-> <<>>,
     ok |-> FALSE, val |-> <<>>, ref |-> 0, err |-> nil]

NoCall == Ret("none")

Init ==
    /\ registeredNets = {}
    /\ pubKeyHashAddrIDs = {}
    /\ scriptHashAddrIDs = {}
    /\ bech32SegwitPrefixes = {}
    /\ hdPrivToPubKeyIDs = EmptyMap
    /\ params = <<>>
    /\ initpc = 0
    /\ crashed = "no"
    /\ pc = [g \in Goroutines |-> 0]
    /\ frame = [g \in Goroutines |-> NoFrame]
    /\ ret = [g \in Goroutines |-> NoCall]
    /\ registered = {}

\* func init(): the next mustRegister call of package initialization.
PkgInit ==
    /\ initpc < Len(InitOrder)
    /\ crashed = "no"
    /\ mustRegister(InitOrder[initpc + 1])
    /\ initpc' = initpc + 1
    /\ UNCHANGED <<pc, frame, ret>>

\* Package initialization is over and the process runs.
Running == initpc = Len(InitOrder) /\ crashed = "no"

CallRegister(v) ==
    /\ Running
    /\ \E e \in {nil, ErrDuplicateNet} :
          /\ Register(v, e)
          /\ ret' = [ret EXCEPT ![Main] =
                       [Ret("Register") EXCEPT !.params = v, !.err = e]]
    /\ UNCHANGED <<initpc, crashed, pc, frame>>

CallIsPubKeyHashAddrID(id) ==
    /\ Running
    /\ ret' = [ret EXCEPT ![Main] =
                 [Ret("IsPubKeyHashAddrID") EXCEPT !.id = id, !.ok = IsPubKeyHashAddrID(id)]]
    /\ UNCHANGED <<registry, registered, initpc, crashed, pc, frame>>

CallIsScriptHashAddrID(id) ==
    /\ Running
    /\ ret' = [ret EXCEPT ![Main] =
                 [Ret("IsScriptHashAddrID") EXCEPT !.id = id, !.ok = IsScriptHashAddrID(id)]]
    /\ UNCHANGED <<registry, registered, initpc, crashed, pc, frame>>

CallIsBech32SegwitPrefix(prefix) ==
    /\ Running
    /\ ret' = [ret EXCEPT ![Main] =
                 [Ret("IsBech32SegwitPrefix") EXCEPT !.bytes = prefix,
                                                     !.ok = IsBech32SegwitPrefix(prefix)]]
    /\ UNCHANGED <<registry, registered, initpc, crashed, pc, frame>>

CallHDPrivateKeyToPublicKeyID(id) ==
    /\ Running
    /\ LET r == HDPrivateKeyToPublicKeyID(id) IN
        ret' = [ret EXCEPT ![Main] =
                 [Ret("HDPrivateKeyToPublicKeyID") EXCEPT !.bytes = id, !.val = r.val,
                                                          !.ref = r.ref, !.err = r.err]]
    /\ UNCHANGED <<registry, registered, initpc, crashed, pc, frame>>

Next ==
    \/ PkgInit
    \/ \E v \in CallParams \cup BuiltIn : CallRegister(v)
    \/ \E id \in ByteInputs : CallIsPubKeyHashAddrID(id)
    \/ \E id \in ByteInputs : CallIsScriptHashAddrID(id)
    \/ \E prefix \in PrefixInputs : CallIsBech32SegwitPrefix(prefix)
    \/ \E id \in IDInputs : CallHDPrivateKeyToPublicKeyID(id)

Spec == Init /\ [][Next]_vars

----------------------------------------------------------------------------
(* The program with several goroutines.  The package takes no lock, so the *)
(* goroutines' statements interleave: a call is entered, executes its map  *)
(* accesses one statement at a time, and returns.                          *)

\* What the goroutines of the concurrent specification call with: two
\* networks with the same new magic and different address ids.
ConcParams ==
    {v \in CallParams : /\ v.Net = SimNet
                        /\ v.Bech32HRPSegwit = HRPsb
                        /\ v.HDPrivateKeyID = PadHDPriv
                        /\ v.HDPublicKeyID = SimHDPub}

ConcPubKeyInputs == {16, 111}
ConcScriptInputs == {76, 196}
ConcPrefixInputs == {HRPsb \o Sep}
ConcIDInputs == {PadHDPriv, Take(PadHDPriv, 3)}

\* The package-level map the statement at a source line accesses.
MapAt(line) ==
    CASE line \in {516, 519} -> "registeredNets"
      [] line \in {520, 545} -> "pubKeyHashAddrIDs"
      [] line \in {521, 556} -> "scriptHashAddrIDs"
      [] line \in {522, 579} -> "hdPrivToPubKeyIDs"
      [] line \in {526, 565} -> "bech32SegwitPrefixes"
      [] OTHER -> "none"

\* The statements that assign to a map.
IsWrite(line) == line \in {519, 520, 521, 522, 526}

\* The other goroutines about to write the map g is about to access.
Writers(g) ==
    {h \in Goroutines \ {g} :
        /\ MapAt(pc[g]) # "none"
        /\ MapAt(pc[h]) = MapAt(pc[g])
        /\ IsWrite(pc[h])}

\* The other goroutines about to read the map g is about to write.
Readers(g) ==
    {h \in Goroutines \ {g} :
        /\ IsWrite(pc[g])
        /\ MapAt(pc[h]) = MapAt(pc[g])
        /\ ~IsWrite(pc[h])}

\* g's next map access and another goroutine's next access to the same map
\* are unordered and one of them is a write: a data race.
Racing(g) == Writers(g) # {} \/ Readers(g) # {}

\* The Go runtime may detect a racing map access and end the process with
\* "fatal error: concurrent map read and map write" / "concurrent map writes".
Fatal(g) ==
    /\ Running
    /\ Racing(g)
    /\ crashed' = "fatal"
    /\ UNCHANGED <<registry, registered, initpc, pc, frame, ret>>

Return(g, r) ==
    /\ ret' = [ret EXCEPT ![g] = r]
    /\ pc' = [pc EXCEPT ![g] = 0]
    /\ frame' = [frame EXCEPT ![g] = NoFrame]

Enter(g, line, f) ==
    /\ Running
    /\ pc[g] = 0
    /\ pc' = [pc EXCEPT ![g] = line]
    /\ frame' = [frame EXCEPT ![g] = f]
    /\ UNCHANGED <<registry, registered, initpc, crashed, ret>>

GoRegister(g, v) == Enter(g, 516, [NoFrame EXCEPT !.params = v])

GoIsPubKeyHashAddrID(g, id) == Enter(g, 545, [NoFrame EXCEPT !.id = id])

GoIsScriptHashAddrID(g, id) == Enter(g, 556, [NoFrame EXCEPT !.id = id])

GoIsBech32SegwitPrefix(g, prefix) == Enter(g, 565, [NoFrame EXCEPT !.bytes = prefix])

\* if len(id) != 4 { return nil, ErrUnknownHDKeyID } touches no map.
GoHDPrivateKeyToPublicKeyID(g, id) ==
    IF Len(id) # 4
    THEN /\ Running
         /\ pc[g] = 0
         /\ LET r == HDPrivateKeyToPublicKeyID(id) IN
             ret' = [ret EXCEPT ![g] =
                      [Ret("HDPrivateKeyToPublicKeyID") EXCEPT !.bytes = id, !.val = r.val,
                                                               !.ref = r.ref, !.err = r.err]]
         /\ UNCHANGED <<registry, registered, initpc, crashed, pc, frame>>
    ELSE Enter(g, 579, [NoFrame EXCEPT !.bytes = id])

\* if _, ok := registeredNets[params.Net]; ok { return ErrDuplicateNet }
\* A read that races with a write may see the map before or after it.
Register516(g) ==
    /\ Running
    /\ pc[g] = 516
    /\ LET v == frame[g].params IN
        \E ok \in {v.Net \in registeredNets}
                   \cup {TRUE : h \in {h \in Writers(g) : frame[h].params.Net = v.Net}} :
           IF ok
           THEN /\ Return(g, [Ret("Register") EXCEPT !.params = v, !.err = ErrDuplicateNet])
                /\ UNCHANGED <<registry, registered, initpc, crashed>>
           ELSE /\ Alloc(v)
                /\ pc' = [pc EXCEPT ![g] = 519]
                /\ frame' = [frame EXCEPT ![g].ptr = New]
                /\ UNCHANGED <<maps, registered, initpc, crashed, ret>>

\* The line after an assignment of Register.
NextLine(line) ==
    CASE line = 519 -> 520
      [] line = 520 -> 521
      [] line = 521 -> 522
      [] line = 522 -> 526
      [] line = 526 -> 527

\* One of the five map assignments of Register.
RegisterAssign(g) ==
    /\ Running
    /\ IsWrite(pc[g])
    /\ LET v == frame[g].params IN
        CASE pc[g] = 519 ->
               /\ Line519(v)
               /\ UNCHANGED <<pubKeyHashAddrIDs, scriptHashAddrIDs,
                              bech32SegwitPrefixes, hdPrivToPubKeyIDs>>
          [] pc[g] = 520 ->
               /\ Line520(v)
               /\ UNCHANGED <<registeredNets, scriptHashAddrIDs,
                              bech32SegwitPrefixes, hdPrivToPubKeyIDs>>
          [] pc[g] = 521 ->
               /\ Line521(v)
               /\ UNCHANGED <<registeredNets, pubKeyHashAddrIDs,
                              bech32SegwitPrefixes, hdPrivToPubKeyIDs>>
          [] pc[g] = 522 ->
               /\ Line522(v, frame[g].ptr)
               /\ UNCHANGED <<registeredNets, pubKeyHashAddrIDs, scriptHashAddrIDs,
                              bech32SegwitPrefixes>>
          [] pc[g] = 526 ->
               /\ Line526(v)
               /\ UNCHANGED <<registeredNets, pubKeyHashAddrIDs, scriptHashAddrIDs,
                              hdPrivToPubKeyIDs>>
    /\ pc' = [pc EXCEPT ![g] = NextLine(pc[g])]
    /\ UNCHANGED <<params, registered, initpc, crashed, frame, ret>>

\* return nil
Register527(g) ==
    /\ Running
    /\ pc[g] = 527
    /\ registered' = registered \cup {frame[g].ptr}
    /\ Return(g, [Ret("Register") EXCEPT !.params = frame[g].params])
    /\ UNCHANGED <<registry, initpc, crashed>>

\* _, ok := pubKeyHashAddrIDs[id]; return ok
IsPubKeyHashAddrID545(g) ==
    /\ Running
    /\ pc[g] = 545
    /\ LET id == frame[g].id IN
        \E ok \in {IsPubKeyHashAddrID(id)}
                   \cup {TRUE : h \in {h \in Writers(g) :
                                          frame[h].params.PubKeyHashAddrID = id}} :
           Return(g, [Ret("IsPubKeyHashAddrID") EXCEPT !.id = id, !.ok = ok])
    /\ UNCHANGED <<registry, registered, initpc, crashed>>

\* _, ok := scriptHashAddrIDs[id]; return ok
IsScriptHashAddrID556(g) ==
    /\ Running
    /\ pc[g] = 556
    /\ LET id == frame[g].id IN
        \E ok \in {IsScriptHashAddrID(id)}
                   \cup {TRUE : h \in {h \in Writers(g) :
                                          frame[h].params.ScriptHashAddrID = id}} :
           Return(g, [Ret("IsScriptHashAddrID") EXCEPT !.id = id, !.ok = ok])
    /\ UNCHANGED <<registry, registered, initpc, crashed>>

\* prefix = strings.ToLower(prefix); _, ok := bech32SegwitPrefixes[prefix]; return ok
IsBech32SegwitPrefix565(g) ==
    /\ Running
    /\ pc[g] = 565
    /\ LET prefix == frame[g].bytes IN
        \E ok \in {IsBech32SegwitPrefix(prefix)}
                   \cup {TRUE : h \in {h \in Writers(g) :
                              frame[h].params.Bech32HRPSegwit \o Sep = ToLower(prefix)}} :
           Return(g, [Ret("IsBech32SegwitPrefix") EXCEPT !.bytes = prefix, !.ok = ok])
    /\ UNCHANGED <<registry, registered, initpc, crashed>>

\* pubBytes, ok := hdPrivToPubKeyIDs[key] and the two returns after it
HDPrivateKeyToPublicKeyID579(g) ==
    /\ Running
    /\ pc[g] = 579
    /\ LET id == frame[g].bytes IN
        \E r \in {HDPrivateKeyToPublicKeyID(id)}
                  \cup {[val |-> params[frame[h].ptr].HDPublicKeyID,
                         ref |-> frame[h].ptr, err |-> nil] :
                            h \in {h \in Writers(g) :
                                     frame[h].params.HDPrivateKeyID = CopyKey(id)}} :
           Return(g, [Ret("HDPrivateKeyToPublicKeyID") EXCEPT !.bytes = id, !.val = r.val,
                                                             !.ref = r.ref, !.err = r.err])
    /\ UNCHANGED <<registry, registered, initpc, crashed>>

NextConc ==
    \/ PkgInit
    \/ \E g \in Goroutines, v \in ConcParams : GoRegister(g, v)
    \/ \E g \in Goroutines, id \in ConcPubKeyInputs : GoIsPubKeyHashAddrID(g, id)
    \/ \E g \in Goroutines, id \in ConcScriptInputs : GoIsScriptHashAddrID(g, id)
    \/ \E g \in Goroutines, prefix \in ConcPrefixInputs : GoIsBech32SegwitPrefix(g, prefix)
    \/ \E g \in Goroutines, id \in ConcIDInputs : GoHDPrivateKeyToPublicKeyID(g, id)
    \/ \E g \in Goroutines : Register516(g)
    \/ \E g \in Goroutines : RegisterAssign(g)
    \/ \E g \in Goroutines : Register527(g)
    \/ \E g \in Goroutines : IsPubKeyHashAddrID545(g)
    \/ \E g \in Goroutines : IsScriptHashAddrID556(g)
    \/ \E g \in Goroutines : IsBech32SegwitPrefix565(g)
    \/ \E g \in Goroutines : HDPrivateKeyToPublicKeyID579(g)
    \/ \E g \in Goroutines : Fatal(g)

SpecConc == Init /\ [][NextConc]_vars

----------------------------------------------------------------------------
(* The program with one caller that writes to what a lookup gave it.       *)
(* HDPrivateKeyToPublicKeyID returns the slice stored by line 522, which   *)
(* shares its bytes with the HDPublicKeyID array of the registered Params: *)
(* r[i] = b on the returned r writes that array.                           *)

\* What this caller registers: the built-in Params again, or one run-time
\* network with any of the HD magics of CallParams.
AliasParams ==
    BuiltIn \cup {v \in CallParams : /\ v.Net = SimNet
                                     /\ v.Bech32HRPSegwit = HRPsb
                                     /\ v.PubKeyHashAddrID = 111}

\* Positions and bytes of the caller's writes through a slice, and the
\* arrays it assigns to a field.
WriteIndexes == {4}
WriteBytes == {0}
WriteArrays == {SimHDPub}

\* r[i] = b, r being the slice the caller's last lookup returned.
WriteResult(i, b) ==
    /\ Running
    /\ ret[Main].op = "HDPrivateKeyToPublicKeyID"
    /\ ret[Main].ref # 0
    /\ params' = [params EXCEPT ![ret[Main].ref].HDPublicKeyID[i] = b]
    /\ UNCHANGED <<maps, registered, initpc, crashed, pc, frame, ret>>

\* ps.HDPublicKeyID = a, ps being a Params the caller holds a pointer to:
\* one it registered, or an exported built-in one.
WriteField(p, a) ==
    /\ Running
    /\ p \in registered
    /\ params' = [params EXCEPT ![p].HDPublicKeyID = a]
    /\ ret' = [ret EXCEPT ![Main] = [Ret("WriteField") EXCEPT !.ref = p, !.val = a]]
    /\ UNCHANGED <<maps, registered, initpc, crashed, pc, frame>>

NextAlias ==
    \/ PkgInit
    \/ \E v \in AliasParams : CallRegister(v)
    \/ \E id \in ByteInputs : CallIsPubKeyHashAddrID(id)
    \/ \E id \in ByteInputs : CallIsScriptHashAddrID(id)
    \/ \E prefix \in PrefixInputs : CallIsBech32SegwitPrefix(prefix)
    \/ \E id \in IDInputs : CallHDPrivateKeyToPublicKeyID(id)
    \/ \E i \in WriteIndexes, b \in WriteBytes : WriteResult(i, b)
    \/ \E p \in DOMAIN params, a \in WriteArrays : WriteField(p, a)

SpecAlias == Init /\ [][NextAlias]_vars

----------------------------------------------------------------------------
(* The program with further package init functions.  mustRegister is not   *)
(* exported: besides func init() only other init functions of the package  *)
(* can call it, and they run before the process does anything else.  Here  *)
(* such calls are applied to Params of any magic, interleaved with the     *)
(* calls of the exported functions.                                        *)

\* The Params of these calls: the built-in ones, or a run-time network of
\* any magic.
MustParams ==
    BuiltIn \cup {v \in CallParams : /\ v.Bech32HRPSegwit = HRPsb
                                     /\ v.PubKeyHashAddrID = 111
                                     /\ v.HDPublicKeyID = SimHDPub}

\* mustRegister(v); it has no result, and a panic ends the process.
CallMustRegister(v) ==
    /\ Running
    /\ mustRegister(v)
    /\ ret' = [ret EXCEPT ![Main] = [Ret("mustRegister") EXCEPT !.params = v]]
    /\ UNCHANGED <<initpc, pc, frame>>

NextMust ==
    \/ PkgInit
    \/ \E v \in MustParams : CallMustRegister(v)
    \/ \E v \in MustParams : CallRegister(v)
    \/ \E id \in ByteInputs : CallIsPubKeyHashAddrID(id)
    \/ \E id \in ByteInputs : CallIsScriptHashAddrID(id)
    \/ \E prefix \in PrefixInputs : CallIsBech32SegwitPrefix(prefix)
    \/ \E id \in IDInputs : CallHDPrivateKeyToPublicKeyID(id)

SpecMust == Init /\ [][NextMust]_vars

----------------------------------------------------------------------------
(* Vocabulary of the properties. *)

\* The networks whose Register call returned nil.
RegisteredParams == {params[p] : p \in registered}

\* The last call of the single caller.
last == ret[Main]

\* A letter with its case swapped; any other byte unchanged.
SwapCase(c) ==
    IF c >= 65 /\ c <= 90 THEN c + 32
    ELSE IF c >= 97 /\ c <= 122 THEN c - 32
    ELSE c

\* The strings equal to s up to letter case.
CaseVariants(s) ==
    {t \in [DOMAIN s -> UNION {{s[i], SwapCase(s[i])} : i \in DOMAIN s}] :
        \A i \in DOMAIN s : t[i] \in {s[i], SwapCase(s[i])}}

EndsInSep(s) == Len(s) > 0 /\ s[Len(s)] = Sep[1]

\* The registered magics and the key sets of the four indices are those of
\* the registered networks.
IndicesMatchRegistered ==
    /\ registeredNets = {ps.Net : ps \in RegisteredParams}
    /\ pubKeyHashAddrIDs = {ps.PubKeyHashAddrID : ps \in RegisteredParams}
    /\ scriptHashAddrIDs = {ps.ScriptHashAddrID : ps \in RegisteredParams}
    /\ bech32SegwitPrefixes = {ps.Bech32HRPSegwit \o Sep : ps \in RegisteredParams}
    /\ DOMAIN hdPrivToPubKeyIDs = {ps.HDPrivateKeyID : ps \in RegisteredParams}

----------------------------------------------------------------------------
(* C1 *)

\* C1: a Register call whose magic is already registered returns
\* ErrDuplicateNet and leaves the registered magics, the four indices and the
\* heap as they were, whatever the other identifiers of its argument.
C1_DuplicateRegisterRejected ==
    [][(last'.op = "Register" /\ last'.params.Net \in registeredNets)
          => (last'.err = ErrDuplicateNet /\ UNCHANGED <<registry, registered>>)]_vars

\* A Register call for a magic registered by an earlier Register call has
\* failed, and none of its other identifiers is in any index.
C1_Witness ==
    /\ last.op = "Register"
    /\ last.err = ErrDuplicateNet
    /\ last.params.Net = SimNet
    /\ last.params.PubKeyHashAddrID \notin pubKeyHashAddrIDs
    /\ last.params.ScriptHashAddrID \notin scriptHashAddrIDs
    /\ last.params.Bech32HRPSegwit \o Sep \notin bech32SegwitPrefixes
    /\ last.params.HDPrivateKeyID \notin DOMAIN hdPrivToPubKeyIDs

----------------------------------------------------------------------------
(* C2 *)

\* C2: IsPubKeyHashAddrID(id) is true exactly for the pubkey-hash ids of the
\* networks whose Register succeeded; it is true for ps.PubKeyHashAddrID
\* right after Register(ps) succeeds; a call returns that answer.
C2_PubKeyHashIndexExact ==
    /\ \A id \in 0..255 :
          IsPubKeyHashAddrID(id) <=> (\E ps \in RegisteredParams : ps.PubKeyHashAddrID = id)
    /\ (last.op = "Register" /\ last.err = nil)
          => IsPubKeyHashAddrID(last.params.PubKeyHashAddrID)
    /\ last.op = "IsPubKeyHashAddrID"
          => (last.ok <=> (\E ps \in RegisteredParams : ps.PubKeyHashAddrID = last.id))

\* IsPubKeyHashAddrID(196) has returned false although a registered network
\* has script-hash id 196 (and pubkey-hash id 111, which is reported).
C2_Witness ==
    /\ last.op = "IsPubKeyHashAddrID"
    /\ last.id = 196
    /\ last.ok = FALSE
    /\ \E ps \in RegisteredParams : ps.ScriptHashAddrID = 196 /\ ps.PubKeyHashAddrID = 111
    /\ IsPubKeyHashAddrID(111)

----------------------------------------------------------------------------
(* C3 *)

\* C3: IsScriptHashAddrID(id) is true exactly for the script-hash ids of the
\* networks whose Register succeeded, whatever the pubkey-hash index holds;
\* a call returns that answer.
C3_ScriptHashIndexExact ==
    /\ \A id \in 0..255 :
          IsScriptHashAddrID(id) <=> (\E ps \in RegisteredParams : ps.ScriptHashAddrID = id)
    /\ last.op = "IsScriptHashAddrID"
          => (last.ok <=> (\E ps \in RegisteredParams : ps.ScriptHashAddrID = last.id))

\* IsScriptHashAddrID(111) has returned false although a registered network
\* has pubkey-hash id 111.
C3_Witness ==
    /\ last.op = "IsScriptHashAddrID"
    /\ last.id = 111
    /\ last.ok = FALSE
    /\ \E ps \in RegisteredParams : ps.PubKeyHashAddrID = 111
    /\ IsPubKeyHashAddrID(111)

----------------------------------------------------------------------------
(* C4 *)

\* C4: once a network with prefix "bc" is registered, IsBech32SegwitPrefix is
\* true for every case variant of "bc1" and false for "bc"; no argument that
\* does not end in "1" is reported as known; a call returns accordingly.
C4_Bech32CaseInsensitiveWithSeparator ==
    /\ (\E ps \in RegisteredParams : ps.Bech32HRPSegwit = HRPbc)
          => /\ \A prefix \in CaseVariants(HRPbc \o Sep) : IsBech32SegwitPrefix(prefix)
             /\ ~IsBech32SegwitPrefix(HRPbc)
    /\ \A prefix \in PrefixInputs : ~EndsInSep(prefix) => ~IsBech32SegwitPrefix(prefix)
    /\ (last.op = "IsBech32SegwitPrefix" /\ ~EndsInSep(last.bytes)) => last.ok = FALSE
    /\ (last.op = "IsBech32SegwitPrefix" /\ last.bytes \in CaseVariants(HRPbc \o Sep))
          => last.ok = TRUE

\* IsBech32SegwitPrefix("BC1") has returned true.
C4_Witness ==
    /\ last.op = "IsBech32SegwitPrefix"
    /\ last.bytes = <<66, 67, 49>>
    /\ last.ok = TRUE
    /\ \E ps \in RegisteredParams : ps.Bech32HRPSegwit = HRPbc

----------------------------------------------------------------------------
(* C5 *)

\* C5: for every registered network ps, IsBech32SegwitPrefix(p) is true for
\* every p equal to ps.Bech32HRPSegwit + "1" up to letter case, and true only
\* for such p.
C5_Bech32IndexCaseNormalized ==
    /\ \A ps \in RegisteredParams :
          \A prefix \in CaseVariants(ps.Bech32HRPSegwit \o Sep) : IsBech32SegwitPrefix(prefix)
    /\ \A prefix \in PrefixInputs :
          IsBech32SegwitPrefix(prefix)
             => \E ps \in RegisteredParams : prefix \in CaseVariants(ps.Bech32HRPSegwit \o Sep)

----------------------------------------------------------------------------
(* C6 *)

\* C6: HDPrivateKeyToPublicKeyID called with an input whose length is not 4
\* returns the nil slice and ErrUnknownHDKeyID, whatever the bytes, and
\* leaves the registry unchanged.
C6_WrongLengthRejected ==
    [][(last'.op = "HDPrivateKeyToPublicKeyID" /\ Len(last'.bytes) # 4)
          => /\ last'.err = ErrUnknownHDKeyID
             /\ last'.val = <<>>
             /\ UNCHANGED <<registry, registered>>]_vars

\* A 3-byte input that zero-padded to 4 bytes is a registered HD private
\* magic has been rejected.
C6_Witness ==
    /\ last.op = "HDPrivateKeyToPublicKeyID"
    /\ Len(last.bytes) = 3
    /\ Take(last.bytes, 4) \in DOMAIN hdPrivToPubKeyIDs
    /\ last.err = ErrUnknownHDKeyID

----------------------------------------------------------------------------
(* C7 *)

\* What C7 says HDPrivateKeyToPublicKeyID(id) returns for a 4-byte id.
ExactMatch(id, r) ==
    /\ r.err = ErrUnknownHDKeyID
          <=> ~(\E ps \in RegisteredParams : ps.HDPrivateKeyID = id)
    /\ r.err # ErrUnknownHDKeyID
          => /\ r.err = nil
             /\ Len(r.val) = 4
             /\ \E ps \in RegisteredParams :
                   ps.HDPrivateKeyID = id /\ ps.HDPublicKeyID = r.val

\* C7: for a 4-byte id, HDPrivateKeyToPublicKeyID returns ErrUnknownHDKeyID
\* iff no registered network has HDPrivateKeyID = id, and otherwise returns
\* without error the 4-byte HDPublicKeyID of a registered network whose
\* HDPrivateKeyID is id.
C7_HDLookupExactMatch ==
    /\ \A id \in {i \in IDInputs : Len(i) = 4} :
          ExactMatch(id, HDPrivateKeyToPublicKeyID(id))
    /\ (last.op = "HDPrivateKeyToPublicKeyID" /\ Len(last.bytes) = 4)
          => ExactMatch(last.bytes, last)

\* The lookup of a run-time network's HD private magic has returned that
\* network's HD public magic, and an unregistered 4-byte id is unknown.
C7_Witness ==
    /\ last.op = "HDPrivateKeyToPublicKeyID"
    /\ last.bytes = PadHDPriv
    /\ last.err = nil
    /\ last.val = SimHDPub
    /\ HDPrivateKeyToPublicKeyID(MainHDPub).err = ErrUnknownHDKeyID

----------------------------------------------------------------------------
(* C8 *)

\* Goroutine h is about to read an index that does not reflect v.
ReadsIndexWithout(h, v) ==
    \/ /\ pc[h] = 556
       /\ frame[h].id = v.ScriptHashAddrID
       /\ ~IsScriptHashAddrID(v.ScriptHashAddrID)
    \/ /\ pc[h] = 565
       /\ ToLower(frame[h].bytes) = v.Bech32HRPSegwit \o Sep
       /\ ~IsBech32SegwitPrefix(frame[h].bytes)
    \/ /\ pc[h] = 579
       /\ CopyKey(frame[h].bytes) = v.HDPrivateKeyID
       /\ HDPrivateKeyToPublicKeyID(frame[h].bytes).err = ErrUnknownHDKeyID

\* C8: while a Register(ps) is in progress and has recorded ps's magic, no
\* other goroutine reads a script-hash, bech32 or HD index that does not yet
\* reflect ps.
C8_RegisterAtomic ==
    \A g \in Goroutines, h \in Goroutines :
        (g # h /\ pc[g] \in {520, 521, 522, 526})
           => ~ReadsIndexWithout(h, frame[g].params)

----------------------------------------------------------------------------
(* C9 *)

\* C9: with readers in IsPubKeyHashAddrID and one writer in Register, no
\* reader's read of pubKeyHashAddrIDs is concurrent with the writer's
\* assignment to it, and once every call has returned the indices match the
\* registered networks.
C9_NoDataRace ==
    /\ \A w \in Goroutines :
          (pc[w] = 520 /\ \A r \in Goroutines \ {w} : pc[r] \in {0, 545})
             => ~Racing(w)
    /\ (\A g \in Goroutines : pc[g] = 0) => IndicesMatchRegistered

----------------------------------------------------------------------------
(* C10 *)

\* C10 as stated: the indices match the registered networks, and for every
\* registered network ps the lookup of ps.HDPrivateKeyID returns
\* ps.HDPublicKeyID.
C10_EveryNetworkKeepsItsHDMapping ==
    /\ IndicesMatchRegistered
    /\ \A ps \in RegisteredParams :
          LET r == HDPrivateKeyToPublicKeyID(ps.HDPrivateKeyID)
          IN  r.err = nil /\ r.val = ps.HDPublicKeyID

\* The network registered last among those with HD private magic key.
LastRegistered(key) ==
    CHOOSE p \in registered :
        /\ params[p].HDPrivateKeyID = key
        /\ \A q \in registered : params[q].HDPrivateKeyID = key => q <= p

\* C10 amended: the indices match the registered networks, and for every
\* registered network ps the lookup of ps.HDPrivateKeyID returns the
\* HDPublicKeyID of the network registered last with that HDPrivateKeyID.
C10_LastRegistrationWins ==
    /\ IndicesMatchRegistered
    /\ \A ps \in RegisteredParams :
          LET r == HDPrivateKeyToPublicKeyID(ps.HDPrivateKeyID)
          IN  /\ r.err = nil
              /\ r.ref = LastRegistered(ps.HDPrivateKeyID)
              /\ r.val = params[LastRegistered(ps.HDPrivateKeyID)].HDPublicKeyID

\* Two registered networks share an HD private magic and differ in the
\* public one, and a lookup has returned the later network's.
C10_Witness ==
    /\ last.op = "HDPrivateKeyToPublicKeyID"
    /\ last.err = nil
    /\ \E p \in registered, q \in registered :
          /\ p < q
          /\ params[p].HDPrivateKeyID = last.bytes
          /\ params[q].HDPrivateKeyID = last.bytes
          /\ params[p].HDPublicKeyID # params[q].HDPublicKeyID
          /\ q = LastRegistered(last.bytes)
          /\ last.val = params[q].HDPublicKeyID

----------------------------------------------------------------------------
(* C11 *)

\* C11: no step removes a registered magic or a key of an index, and a step
\* that writes an index keeps every answer a lookup gave: an argument for
\* which a boolean lookup was true stays true, and an id for which
\* HDPrivateKeyToPublicKeyID succeeded does not get ErrUnknownHDKeyID.
C11_AppendOnly ==
    [][/\ registeredNets \subseteq registeredNets'
       /\ pubKeyHashAddrIDs \subseteq pubKeyHashAddrIDs'
       /\ scriptHashAddrIDs \subseteq scriptHashAddrIDs'
       /\ bech32SegwitPrefixes \subseteq bech32SegwitPrefixes'
       /\ DOMAIN hdPrivToPubKeyIDs \subseteq DOMAIN hdPrivToPubKeyIDs'
       /\ maps' # maps =>
             /\ \A id \in ByteInputs :
                   /\ IsPubKeyHashAddrID(id) => IsPubKeyHashAddrID(id)'
                   /\ IsScriptHashAddrID(id) => IsScriptHashAddrID(id)'
             /\ \A prefix \in PrefixInputs :
                   IsBech32SegwitPrefix(prefix) => IsBech32SegwitPrefix(prefix)'
             /\ \A id \in IDInputs :
                   HDPrivateKeyToPublicKeyID(id).err = nil
                      => HDPrivateKeyToPublicKeyID(id)'.err = nil]_vars

\* After two run-time networks were registered one after the other, lookups
\* of the first one's and of a built-in network's identifiers still
\* succeed: IsBech32SegwitPrefix("sb1") has returned true.
C11_Witness ==
    /\ Len(params) = 5
    /\ registered = 1..5
    /\ params[4].Bech32HRPSegwit = HRPsb
    /\ params[5].Bech32HRPSegwit = HRPSB
    /\ last.op = "IsBech32SegwitPrefix"
    /\ last.bytes = HRPsb \o Sep
    /\ last.ok = TRUE
    /\ IsBech32SegwitPrefix(HRPbc \o Sep)
    /\ HDPrivateKeyToPublicKeyID(TestHDPriv).err = nil

----------------------------------------------------------------------------
(* C12 *)

\* What C12 and its amendment share: package initialization does not panic,
\* no call returns before it is over, and from then on the address ids and
\* "bc1" and "tb1" of the built-in networks are known, their magics are
\* registered, and Register of a built-in Params returns ErrDuplicateNet.
BuiltInsRegistered ==
    /\ crashed # "panic"
    /\ last.op # "none" => initpc = 3
    /\ Running =>
          /\ IsPubKeyHashAddrID(76) /\ IsPubKeyHashAddrID(140)
          /\ IsScriptHashAddrID(16) /\ IsScriptHashAddrID(19)
          /\ IsBech32SegwitPrefix(<<98, 99, 49>>)
          /\ IsBech32SegwitPrefix(<<116, 98, 49>>)
          /\ {MainNet, TestNet, TestNet3} \subseteq registeredNets
    /\ (last.op = "Register" /\ last.params \in BuiltIn) => last.err = ErrDuplicateNet

\* C12 as stated: and in every state after package initialization
\* HDPrivateKeyToPublicKeyID maps 04 88 ad e4 to 04 88 b2 1e and
\* 04 35 83 94 to 04 35 87 cf.
C12_BuiltInsAlwaysKnown ==
    /\ BuiltInsRegistered
    /\ Running =>
          /\ HDPrivateKeyToPublicKeyID(<<4, 136, 173, 228>>).val = <<4, 136, 178, 30>>
          /\ HDPrivateKeyToPublicKeyID(<<4, 136, 173, 228>>).err = nil
          /\ HDPrivateKeyToPublicKeyID(<<4, 53, 131, 148>>).val = <<4, 53, 135, 207>>
          /\ HDPrivateKeyToPublicKeyID(<<4, 53, 131, 148>>).err = nil

\* C12 amended: and in every state after package initialization
\* HDPrivateKeyToPublicKeyID succeeds for 04 88 ad e4 and 04 35 83 94 and
\* returns the HDPublicKeyID array of the Params registered last with that
\* private magic, which holds 04 88 b2 1e and 04 35 87 cf as long as the
\* built-in Params are the only ones registered and as package
\* initialization left them.
C12_BuiltInsKnownHDOfLastRegistration ==
    /\ BuiltInsRegistered
    /\ Running =>
          /\ \A key \in {<<4, 136, 173, 228>>, <<4, 53, 131, 148>>} :
                LET r == HDPrivateKeyToPublicKeyID(key)
                IN  /\ r.err = nil
                    /\ r.ref = LastRegistered(key)
                    /\ r.val = params[LastRegistered(key)].HDPublicKeyID
          /\ params = <<MainNetParams, TestNet3Params, RegressionNetParams>>
                => /\ HDPrivateKeyToPublicKeyID(<<4, 136, 173, 228>>).val = <<4, 136, 178, 30>>
                   /\ HDPrivateKeyToPublicKeyID(<<4, 53, 131, 148>>).val = <<4, 53, 135, 207>>

\* A run-time network with mainnet's HD private magic and a public magic of
\* its own is registered, the lookup of 04 88 ad e4 gives that public magic,
\* and Register(&MainNetParams) has returned ErrDuplicateNet.
C12_Witness ==
    /\ Running
    /\ last.op = "Register"
    /\ last.params = MainNetParams
    /\ last.err = ErrDuplicateNet
    /\ LastRegistered(<<4, 136, 173, 228>>) = 4
    /\ HDPrivateKeyToPublicKeyID(<<4, 136, 173, 228>>).val = SimHDPub

----------------------------------------------------------------------------
(* C13 *)

\* The step is a call mustRegister(v): one of func init(), or a later one.
MustRegisterStep(v) ==
    \/ initpc' = initpc + 1 /\ initpc' <= 3 /\ v = InitOrder[initpc']
    \/ last'.op = "mustRegister" /\ last'.params = v

\* C13: a call mustRegister(v) panics iff v.Net is already registered, and
\* then leaves the registry as it was; otherwise it does what a successful
\* Register(v) does.  The process panics in no other step, and never in a
\* call of Register or of a lookup.
C13_MustRegisterPanicsOnDuplicate ==
    [][/\ \A v \in MustParams :
             MustRegisterStep(v)
                => /\ crashed' = "panic" <=> v.Net \in registeredNets
                   /\ crashed' = "panic" => UNCHANGED <<registry, registered>>
                   /\ crashed' # "panic" => Register(v, nil)
       /\ (crashed' = "panic" /\ crashed # "panic")
             => \E v \in MustParams : MustRegisterStep(v)
       /\ last'.op \notin {"none", "mustRegister"}
             => crashed' = "no"]_vars

\* mustRegister of a run-time Params whose magic an earlier call had
\* registered has panicked, with four Params registered.
C13_Witness ==
    /\ crashed = "panic"
    /\ last.op = "mustRegister"
    /\ last.params.Net = SimNet
    /\ SimNet \in registeredNets
    /\ Len(params) = 4

----------------------------------------------------------------------------
(* C14 *)

StrictlyIncreasing(h) == \A i \in DOMAIN h, j \in DOMAIN h : i < j => h[i] < h[j]

\* C14: the checkpoint heights of every registered built-in network are
\* strictly increasing: mainnet's twenty from 4991 to 750000, testnet3's
\* 261, 1999, 2999; regtest has none.
C14_CheckpointsStrictlyIncreasing ==
    /\ \A p \in registered :
          params[p] \in BuiltIn => StrictlyIncreasing(Checkpoints(params[p]))
    /\ Running =>
          /\ Len(Checkpoints(params[1])) = 20
          /\ Checkpoints(params[1])[1] = 4991
          /\ Checkpoints(params[1])[20] = 750000
          /\ Checkpoints(params[2]) = <<261, 1999, 2999>>
          /\ Checkpoints(params[3]) = <<>>

\* The three built-in networks are registered; mainnet's closest heights,
\* 523412 and 523930, are neighbours in its sequence.
C14_Witness ==
    /\ Running
    /\ {1, 2, 3} \subseteq registered
    /\ params[1] = MainNetParams
    /\ Checkpoints(params[1])[18] = 523412
    /\ Checkpoints(params[1])[19] = 523930
    /\ Len(Checkpoints(params[2])) = 3

----------------------------------------------------------------------------
(* C15 *)

\* C15: the deployment table of every registered built-in network has one
\* entry for each of TestDummy, CSV and Segwit, every entry has a bit number
\* in 0..31 and StartTime <= ExpireTime as uint64, and no two entries of a
\* table have the same bit number; regtest's entries start at 0 and expire
\* at 2^63 - 1.
C15_DeploymentTablesWellFormed ==
    /\ \A p \in registered :
          params[p] \in BuiltIn =>
             LET t == Deployments(params[p]) IN
             /\ DOMAIN t = {DeploymentTestDummy, DeploymentCSV, DeploymentSegwit}
             /\ \A d \in DOMAIN t :
                   /\ t[d].BitNumber \in 0..31
                   /\ Uint64LessEq(t[d].StartTime, t[d].ExpireTime)
             /\ \A d \in DOMAIN t, e \in DOMAIN t :
                   d # e => t[d].BitNumber # t[e].BitNumber
    /\ Running =>
          \A d \in DOMAIN Deployments(params[3]) :
             /\ Deployments(params[3])[d].StartTime = <<0, 0, 0, 0>>
             /\ Deployments(params[3])[d].ExpireTime = <<32767, 65535, 65535, 65535>>

\* The three built-in networks are registered; regtest's Segwit entry runs
\* from 0 to 2^63 - 1 on bit 1, and mainnet's TestDummy entry is on bit 28.
C15_Witness ==
    /\ Running
    /\ {1, 2, 3} \subseteq registered
    /\ params[3] = RegressionNetParams
    /\ Deployments(params[3])[DeploymentSegwit]
          = [BitNumber |-> 1, StartTime |-> <<0, 0, 0, 0>>,
             ExpireTime |-> <<32767, 65535, 65535, 65535>>]
    /\ Deployments(params[1])[DeploymentTestDummy].BitNumber = 28
    /\ ~Uint64LessEq(Deployments(params[3])[DeploymentSegwit].ExpireTime,
                     Deployments(params[1])[DeploymentSegwit].ExpireTime)

----------------------------------------------------------------------------
(* C16 *)

\* C16: a Register call returns nil iff the magic of its argument was not
\* registered, whatever the other identifiers of the argument, and returns
\* ErrDuplicateNet otherwise; after a nil its argument is among the
\* registered networks.
C16_RegisterDecidesOnMagicAlone ==
    [][last'.op = "Register"
          => /\ last'.err = nil <=> last'.params.Net \notin registeredNets
             /\ last'.err # nil => last'.err = ErrDuplicateNet
             /\ last'.err = nil => last'.params \in RegisteredParams']_vars

\* Register has accepted a network whose pubkey-hash id is mainnet's
\* script-hash id 0x10 and whose HD private magic is mainnet's; both
\* IsPubKeyHashAddrID(0x10) and IsScriptHashAddrID(0x10) are true, and
\* regtest and testnet3 are registered with the same identifiers.
C16_Witness ==
    /\ last.op = "Register"
    /\ last.err = nil
    /\ last.params.PubKeyHashAddrID = 16
    /\ last.params.HDPrivateKeyID = <<4, 136, 173, 228>>
    /\ params[1].ScriptHashAddrID = 16
    /\ IsPubKeyHashAddrID(16) /\ IsScriptHashAddrID(16)
    /\ {2, 3} \subseteq registered
    /\ params[2].PubKeyHashAddrID = params[3].PubKeyHashAddrID
    /\ params[2].HDPrivateKeyID = params[3].HDPrivateKeyID

----------------------------------------------------------------------------
(* C17 *)

\* C17: a step in which no Register call succeeds changes the result of
\* HDPrivateKeyToPublicKeyID for no id, be it a write through a returned
\* slice or a write to the HDPublicKeyID field of a registered Params; and
\* unless it is such a write to a field, it changes no registered Params.
C17_LookupsChangeOnlyByRegister ==
    [][registered' = registered
          => /\ \A id \in IDInputs :
                   HDPrivateKeyToPublicKeyID(id)' = HDPrivateKeyToPublicKeyID(id)
             /\ last'.op # "WriteField" => params' = params]_vars

----------------------------------------------------------------------------
(* C18 *)

\* C18: of the Register calls that carry one magic at most one returns nil,
\* whichever way the goroutines interleave, and once every call has
\* returned each index holds identifiers of that call's network only: no
\* two registered networks have the same magic, and every key of an index
\* is an identifier of a registered network.
C18_OneConcurrentRegisterWins ==
    /\ \A g \in Goroutines, h \in Goroutines :
          (/\ g # h
           /\ ret[g].op = "Register" /\ ret[h].op = "Register"
           /\ ret[g].params.Net = ret[h].params.Net)
             => ~(ret[g].err = nil /\ ret[h].err = nil)
    /\ \A p \in registered, q \in registered :
          params[p].Net = params[q].Net => p = q
    /\ (\A g \in Goroutines : pc[g] = 0)
          => /\ pubKeyHashAddrIDs \subseteq {ps.PubKeyHashAddrID : ps \in RegisteredParams}
             /\ scriptHashAddrIDs \subseteq {ps.ScriptHashAddrID : ps \in RegisteredParams}
             /\ bech32SegwitPrefixes
                   \subseteq {ps.Bech32HRPSegwit \o Sep : ps \in RegisteredParams}
             /\ DOMAIN hdPrivToPubKeyIDs \subseteq {ps.HDPrivateKeyID : ps \in RegisteredParams}

====
